---- MODULE Spec2Model ----
(***************************************************************************)
(* Trade Expert Pro, python_backtest: the signal engine of strategy.py     *)
(* (TradeExpertPro.next and its helpers) driven by the Backtest loop of    *)
(* run_backtest.py, and the path-dependent indicators of indicators.py     *)
(* (atr, supertrend, rsi).                                                 *)
(*                                                                         *)
(* Arithmetic is exact rational arithmetic on integers: prices and ATR are *)
(* integers, a level computed with sl_buffer = 1/5 and 1.2 = 6/5 is kept   *)
(* multiplied by 5, a SuperTrend band is kept multiplied by 2*length, and  *)
(* a ratio is kept as numerator and denominator.  Floating-point rounding  *)
(* is modelled only in the section on the reward:risk gate, on a binary    *)
(* format of FloatBits significant bits.  NaN is a value of its own; every *)
(* comparison with NaN is false, as in Python.                             *)
(***************************************************************************)
EXTENDS Integers, Sequences, FiniteSets, TLC

VARIABLES
    pc,            \* which specification runs and whose turn it is
    bar,           \* number of bars revealed so far
    rec,           \* feature record of the current bar (self.data.X[-1])
    Low,           \* self.data.Low, the bars revealed so far
    High,          \* self.data.High
    trades,        \* open trades of the broker (self.position is non-empty)
    orders,        \* order placed by next() and not yet processed
    decision,      \* outcome of the last next(): HOLD / ENTER_LONG / ENTER_SHORT
    stage,         \* where the last next() returned
    quality,       \* get_quality_score() of the last next(), -1 if not evaluated
    confirmations, \* confirmation count of the last next(), -1 if not evaluated
    rr,            \* reward:risk of the last next() as <<n, d>>, <<>> if not evaluated
    levels,        \* <<sl, tp1, tp2, tp3>> *5 of the last next(), <<>> if none
    reason,        \* reason returned by check_veto_conditions in the last next()
    params,        \* the class parameters that bt.optimize overrides
    df,            \* the DataFrame of fetch_data: rows with their timestamp
    features,      \* the feature records add_all_indicators returned, <<>> if none
    series,        \* indicator input: bars [h, l, c] of the series so far
    band,          \* supertrend series (values *2*length, or NaN)
    direction,     \* supertrend direction series
    rsiOut,        \* rsi series
    multiplier     \* the multiplier argument of supertrend

vars == <<pc, bar, rec, Low, High, trades, orders, decision, stage, quality,
          confirmations, rr, levels, reason, params, df, features, series, band, direction,
          rsiOut, multiplier>>

engineVars == <<multiplier, bar, rec, Low, High, trades, orders, decision, stage, quality,
                confirmations, rr, levels, reason, params>>
indicatorVars == <<series, band, direction, rsiOut>>
pipelineVars == <<df, features>>

----
(* Bounds of the model *)
MaxBars == 4          \* bars of one backtest run
MaxHistory == 6       \* bars of the DataFrame when the levels of a bar are computed
MaxPrice == 2         \* prices of the engine's bars are 1..MaxPrice
MaxATR == 1           \* ATR of a feature record is 0..MaxATR
MaxSeriesBars == 5    \* bars of an indicator's input series
MaxSeriesPrice == 3   \* prices of an indicator's input series are 1..MaxSeriesPrice
st_length == 3        \* config['st_length'], the ATR window of supertrend
rsi_period == 2       \* config['rsi_period'], the window of rsi
MaxRows == 2          \* rows of the DataFrame that fetch_data returns
MaxTime == 2          \* timestamps of the rows are 1..MaxTime
MaxEMA == 3           \* Close and EMA values of a row are 1..MaxEMA
FloatBits == 3        \* significant bits of a floating-point number
FracBits == 2         \* the smallest positive floating-point number is 2^-FracBits
MaxFloat == 12        \* prices and ATR of the gate are at most MaxFloat * 2^-FracBits

----
(* Program constants *)
min_quality == 50
min_rr_num == 3       \* min_rr = 1.5 = 3/2
min_rr_den == 2
tp1_rr == 1
tp2_rr == 2
tp3_rr == 3
sl_buffer_den == 5    \* sl_buffer = 0.2 = 1/5; levels are kept *5
atr_stop_num == 6     \* 1.2 = 6/5
SwingWindow == 5      \* self.data.Low[-5:]
MinConfirmations == 3
st_mult == 3          \* config['st_mult']

\* the parameters of TradeExpertPro that optimize_strategy sweeps, at their
\* class defaults
DefaultParams == [min_rr |-> <<min_rr_num, min_rr_den>>, tp2_rr |-> <<tp2_rr, 1>>]

\* not-a-number: every comparison with it is false
NaN == -1000000


Min(a, b) == IF a <= b THEN a ELSE b
Max(a, b) == IF a >= b THEN a ELSE b
Abs(a) == IF a < 0 THEN -a ELSE a

RECURSIVE SeqMin(_)
SeqMin(s) == IF Len(s) = 1 THEN s[1] ELSE Min(s[1], SeqMin(Tail(s)))
RECURSIVE SeqMax(_)
SeqMax(s) == IF Len(s) = 1 THEN s[1] ELSE Max(s[1], SeqMax(Tail(s)))

\* s[-n:] of Python
LastN(s, n) == IF Len(s) <= n THEN s ELSE SubSeq(s, Len(s) - n + 1, Len(s))

----
(* Feature records: the columns of the DataFrame that the engine reads *)

VolStates == {"ULTRA_LOW", "LOW", "NORMAL", "HIGH", "EXTREME"}
Biases == {"BULLISH", "BEARISH", "NEUTRAL"}

\* OHLC of one bar: Low <= Close <= High
BarShapes == {b \in [Low : 1..MaxPrice, High : 1..MaxPrice, Close : 1..MaxPrice] :
                 b.Low <= b.Close /\ b.Close <= b.High}

\* (MACD, MACD_Signal): above, below, equal
MacdPairs == {<<1, 0>>, <<0, 1>>, <<0, 0>>}

Feature(b, a, vol, bias, mtf, bull, bear, stb, sts, m, r, spike, be, hm, se, ss, ba, bb) ==
    [Close |-> b.Close, Low |-> b.Low, High |-> b.High, ATR |-> a,
     VolState |-> vol, Bias |-> bias, MTFScore |-> mtf,
     BullishStack |-> bull, BearishStack |-> bear,
     ST_Bullish |-> stb, ST_Bearish |-> sts,
     MACD |-> m[1], MACD_Signal |-> m[2], RSI |-> r, VolumeSpike |-> spike,
     BullishEngulfing |-> be, Hammer |-> hm,
     BearishEngulfing |-> se, ShootingStar |-> ss,
     BreakAbove |-> ba, BreakBelow |-> bb]

NoRec == Feature([Close |-> 0, Low |-> 0, High |-> 0], 0, "NORMAL", "NEUTRAL", 0,
                 FALSE, FALSE, FALSE, FALSE, <<0, 0>>, 0, FALSE,
                 FALSE, FALSE, FALSE, FALSE, FALSE, FALSE)

----
(* strategy.py: TradeExpertPro *)

\* mutant of ScoreTimes5: the MTF term is not capped at 20
ScoreTimes5_uncapped(r) ==
    Abs(r.MTFScore)
    + (IF r.BullishStack \/ r.BearishStack THEN 15 * 5 ELSE 0)
    + (IF (r.Bias = "BULLISH" /\ r.ST_Bullish) \/ (r.Bias = "BEARISH" /\ r.ST_Bearish)
         THEN 10 * 5 ELSE 0)
    + (IF (r.Bias = "BULLISH" /\ 30 < r.RSI /\ r.RSI < 70)
           \/ (r.Bias = "BEARISH" /\ 30 < r.RSI /\ r.RSI < 70)
         THEN 10 * 5 ELSE 0)
    + (IF (r.Bias = "BULLISH" /\ r.MACD > r.MACD_Signal)
           \/ (r.Bias = "BEARISH" /\ r.MACD < r.MACD_Signal)
         THEN 10 * 5 ELSE 0)
    + (IF r.VolumeSpike THEN 10 * 5 ELSE 0)
    + (IF (r.Bias = "BULLISH" /\ (r.BullishEngulfing \/ r.Hammer))
           \/ (r.Bias = "BEARISH" /\ (r.BearishEngulfing \/ r.ShootingStar))
         THEN 10 * 5 ELSE 0)
    + (IF (r.Bias = "BULLISH" /\ r.BreakAbove) \/ (r.Bias = "BEARISH" /\ r.BreakBelow)
         THEN 10 * 5 ELSE 0)
    + (IF r.VolState = "NORMAL" THEN 5 * 5 ELSE 0)

\* the score *5 before int(): min(20, |MTFScore|/100*20) = min(20, |MTFScore|/5)
ScoreTimes5(r) ==
    Min(20 * 5, Abs(r.MTFScore))
    + (IF r.BullishStack \/ r.BearishStack THEN 15 * 5 ELSE 0)
    + (IF (r.Bias = "BULLISH" /\ r.ST_Bullish) \/ (r.Bias = "BEARISH" /\ r.ST_Bearish)
         THEN 10 * 5 ELSE 0)
    + (IF (r.Bias = "BULLISH" /\ 30 < r.RSI /\ r.RSI < 70)
           \/ (r.Bias = "BEARISH" /\ 30 < r.RSI /\ r.RSI < 70)
         THEN 10 * 5 ELSE 0)
    + (IF (r.Bias = "BULLISH" /\ r.MACD > r.MACD_Signal)
           \/ (r.Bias = "BEARISH" /\ r.MACD < r.MACD_Signal)
         THEN 10 * 5 ELSE 0)
    + (IF r.VolumeSpike THEN 10 * 5 ELSE 0)
    + (IF (r.Bias = "BULLISH" /\ (r.BullishEngulfing \/ r.Hammer))
           \/ (r.Bias = "BEARISH" /\ (r.BearishEngulfing \/ r.ShootingStar))
         THEN 10 * 5 ELSE 0)
    + (IF (r.Bias = "BULLISH" /\ r.BreakAbove) \/ (r.Bias = "BEARISH" /\ r.BreakBelow)
         THEN 10 * 5 ELSE 0)
    + (IF r.VolState = "NORMAL" THEN 5 * 5 ELSE 0)

\* int(score)
IntScore(r) == ScoreTimes5(r) \div 5

get_quality_score(r) == Min(100, IntScore(r))

\* mutant of get_sl_tp: the swing extreme is taken over all bars, not the last 5
get_sl_tp_whole(is_long, r, lows, highs) ==
    LET close5 == sl_buffer_den * r.Close
    IN  IF is_long
          THEN LET sl == Min(sl_buffer_den * SeqMin(lows) - r.ATR,
                             close5 - atr_stop_num * r.ATR)
                   risk == close5 - sl
               IN  <<sl, close5 + risk * tp1_rr, close5 + risk * tp2_rr,
                     close5 + risk * tp3_rr>>
          ELSE LET sl == Max(sl_buffer_den * SeqMax(highs) + r.ATR,
                             close5 + atr_stop_num * r.ATR)
                   risk == sl - close5
               IN  <<sl, close5 - risk * tp1_rr, close5 - risk * tp2_rr,
                     close5 - risk * tp3_rr>>

\* <<sl, tp1, tp2, tp3>>, each *sl_buffer_den
get_sl_tp(is_long, r, lows, highs) ==
    LET atr5 == r.ATR      \* atr * sl_buffer, *5
        close5 == sl_buffer_den * r.Close
    IN  IF is_long
          THEN LET recent_low == SeqMin(LastN(lows, SwingWindow))
                   sl == Min(sl_buffer_den * recent_low - atr5,
                             close5 - atr_stop_num * r.ATR)
                   risk == close5 - sl
               IN  <<sl, close5 + risk * tp1_rr, close5 + risk * tp2_rr,
                     close5 + risk * tp3_rr>>
          ELSE LET recent_high == SeqMax(LastN(highs, SwingWindow))
                   sl == Max(sl_buffer_den * recent_high + atr5,
                             close5 + atr_stop_num * r.ATR)
                   risk == sl - close5
               IN  <<sl, close5 - risk * tp1_rr, close5 - risk * tp2_rr,
                     close5 - risk * tp3_rr>>

\* mutant of check_veto_conditions: the volatility veto is missing
check_veto_conditions_no_vol(r) ==
    IF r.Bias = "NEUTRAL"
      THEN <<TRUE, "No MTF Confluence">>
      ELSE <<FALSE, "">>

\* <<vetoed, reason>>
check_veto_conditions(r) ==
    IF r.VolState \in {"ULTRA_LOW", "EXTREME"}
      THEN <<TRUE, "Volatility: " \o r.VolState>>
      ELSE IF r.Bias = "NEUTRAL"
             THEN <<TRUE, "No MTF Confluence">>
             ELSE <<FALSE, "">>

\* mutant of InPosition: next() does not look at the position
InPosition_never(tr) == FALSE

\* if self.position
InPosition(tr) == tr # <<>>

\* mutant of BullishConfirmations: the RSI band of the quality score is used
BullishConfirmations_rsi3070(r) ==
    (IF r.BullishStack THEN 1 ELSE 0)
    + (IF r.ST_Bullish THEN 1 ELSE 0)
    + (IF r.MACD > r.MACD_Signal THEN 1 ELSE 0)
    + (IF r.RSI > 30 /\ r.RSI < 70 THEN 1 ELSE 0)
    + (IF r.VolumeSpike THEN 1 ELSE 0)

BullishConfirmations(r) ==
    (IF r.BullishStack THEN 1 ELSE 0)
    + (IF r.ST_Bullish THEN 1 ELSE 0)
    + (IF r.MACD > r.MACD_Signal THEN 1 ELSE 0)
    + (IF r.RSI > 40 /\ r.RSI < 70 THEN 1 ELSE 0)
    + (IF r.VolumeSpike THEN 1 ELSE 0)

BearishConfirmations(r) ==
    (IF r.BearishStack THEN 1 ELSE 0)
    + (IF r.ST_Bearish THEN 1 ELSE 0)
    + (IF r.MACD < r.MACD_Signal THEN 1 ELSE 0)
    + (IF r.RSI < 60 /\ r.RSI > 30 THEN 1 ELSE 0)
    + (IF r.VolumeSpike THEN 1 ELSE 0)

\* mutant of RewardRisk: the division is not guarded
RewardRisk_unguarded(reward, risk) == <<reward, risk>>

\* reward / risk if risk > 0 else 0, as <<numerator, denominator>>
RewardRisk(reward, risk) == IF risk > 0 THEN <<reward, risk>> ELSE <<0, 1>>

\* rr >= self.min_rr
PassesMinRR(x) == x[1] * min_rr_den >= min_rr_num * x[2]

Outcome(d, s, q, c, x, lv, o) ==
    [decision |-> d, stage |-> s, quality |-> q, confirmations |-> c,
     rr |-> x, levels |-> lv, order |-> o]

\* the body of next() on record r
NextOutcome(r, lows, highs, tr) ==
    IF InPosition(tr)
      THEN Outcome("HOLD", "position", -1, -1, <<>>, <<>>, "none")
    ELSE IF check_veto_conditions(r)[1]
      THEN Outcome("HOLD", "veto", -1, -1, <<>>, <<>>, "none")
    ELSE LET q == get_quality_score(r) IN
    IF q < min_quality
      THEN Outcome("HOLD", "quality", q, -1, <<>>, <<>>, "none")
    ELSE IF r.Bias = "BULLISH"
      THEN LET c == BullishConfirmations(r) IN
           IF c >= MinConfirmations
             THEN LET lv == get_sl_tp(TRUE, r, lows, highs)
                      close5 == sl_buffer_den * r.Close
                      x == RewardRisk(lv[3] - close5, close5 - lv[1])
                  IN  IF PassesMinRR(x)
                        THEN Outcome("ENTER_LONG", "entry", q, c, x, lv, "buy")
                        ELSE Outcome("HOLD", "rr", q, c, x, lv, "none")
             ELSE Outcome("HOLD", "confirm", q, c, <<>>, <<>>, "none")
    ELSE IF r.Bias = "BEARISH"
      THEN LET c == BearishConfirmations(r) IN
           IF c >= MinConfirmations
             THEN LET lv == get_sl_tp(FALSE, r, lows, highs)
                      close5 == sl_buffer_den * r.Close
                      x == RewardRisk(close5 - lv[3], lv[1] - close5)
                  IN  IF PassesMinRR(x)
                        THEN Outcome("ENTER_SHORT", "entry", q, c, x, lv, "sell")
                        ELSE Outcome("HOLD", "rr", q, c, x, lv, "none")
             ELSE Outcome("HOLD", "confirm", q, c, <<>>, <<>>, "none")
    ELSE Outcome("HOLD", "nobias", q, -1, <<>>, <<>>, "none")

\* TradeExpertPro.next on the current bar
next ==
    /\ pc = "strategy"
    /\ LET o == NextOutcome(rec, Low, High, trades) IN
         /\ decision' = o.decision
         /\ stage' = o.stage
         /\ quality' = o.quality
         /\ confirmations' = o.confirmations
         /\ rr' = o.rr
         /\ levels' = o.levels
         /\ orders' = o.order
    \* vetoed, reason = self.check_veto_conditions(), reached when flat
    /\ reason' = IF InPosition(trades) THEN "" ELSE check_veto_conditions(rec)[2]
    /\ pc' = "broker"
    /\ UNCHANGED <<bar, rec, Low, High, trades, multiplier, params>>
    /\ UNCHANGED indicatorVars
    /\ UNCHANGED pipelineVars

----
(* run_backtest.py: Backtest(df, TradeExpertPro, exclusive_orders=True,     *)
(* trade_on_close=True).run() reveals the bars one by one; on each bar the  *)
(* broker first processes the order of the previous bar and the stop and    *)
(* target of the open trade, then the strategy's next() runs.               *)

\* a setup in the direction of the Bias on bar b with ATR a
Setup(b, a, bias) ==
    Feature(b, a, "NORMAL", bias,
            IF bias = "BULLISH" THEN 40 ELSE IF bias = "BEARISH" THEN -40 ELSE 10,
            bias = "BULLISH", bias = "BEARISH", bias # "BEARISH", bias = "BEARISH",
            IF bias = "BEARISH" THEN <<0, 1>> ELSE <<1, 0>>, 50, TRUE,
            FALSE, FALSE, FALSE, FALSE, FALSE, FALSE)

\* the feature records of a run
RunRecords == {Setup(b, a, bias) : b \in BarShapes, a \in 0..MaxATR, bias \in Biases}

\* open trades after the broker has processed order o: with exclusive_orders
\* a filled order first closes the open trades; an order may be cancelled
\* (not enough cash); the stop or target of an open trade may be hit
AfterBroker(tr, o) ==
    LET filled == IF o = "buy" THEN {<<"long">>}
                  ELSE IF o = "sell" THEN {<<"short">>}
                  ELSE {}
    IN  filled \cup {tr} \cup {<<>>}

Init ==
    /\ pc = "broker"
    /\ bar = 0
    /\ rec = NoRec
    /\ Low = <<>>
    /\ High = <<>>
    /\ trades = <<>>
    /\ orders = "none"
    /\ decision = "HOLD"
    /\ stage = "init"
    /\ quality = -1
    /\ confirmations = -1
    /\ rr = <<>>
    /\ levels = <<>>
    /\ reason = ""
    /\ params = DefaultParams
    /\ df = <<>>
    /\ features = <<>>
    /\ series = <<>>
    /\ band = <<>>
    /\ direction = <<>>
    /\ rsiOut = <<>>
    /\ multiplier = st_mult

\* the next bar is revealed and Broker.next() runs
BrokerNext ==
    /\ pc = "broker"
    /\ bar < MaxBars
    /\ \E r \in RunRecords :
         /\ rec' = r
         /\ Low' = Append(Low, r.Low)
         /\ High' = Append(High, r.High)
    /\ bar' = bar + 1
    /\ trades' \in AfterBroker(trades, orders)
    /\ orders' = "none"
    /\ pc' = "strategy"
    \* next() has not run on this bar yet
    /\ decision' = "HOLD"
    /\ stage' = "init"
    /\ quality' = -1
    /\ confirmations' = -1
    /\ rr' = <<>>
    /\ levels' = <<>>
    /\ reason' = ""
    /\ UNCHANGED <<multiplier, params>>
    /\ UNCHANGED indicatorVars
    /\ UNCHANGED pipelineVars

Next == BrokerNext \/ next

Spec == Init /\ [][Next]_vars

----
(* One bar of a flat engine, over a wide set of feature records *)

BarRSIs == {35, 50, 65, 70}
BarMTFScores == {15, 40}

\* a pair of flags that never hold together
Exclusive == {<<TRUE, FALSE>>, <<FALSE, TRUE>>, <<FALSE, FALSE>>}

InitBar ==
    /\ pc = "strategy"
    /\ bar = 1
    /\ \E b \in BarShapes, a \in 0..MaxATR, vol \in VolStates, bias \in Biases,
          mtf \in BarMTFScores, st \in Exclusive, stb \in BOOLEAN,
          m \in MacdPairs, r \in BarRSIs, spike \in BOOLEAN,
          pat \in Exclusive, brk \in Exclusive :
         rec = Feature(b, a, vol, bias, mtf, st[1], st[2], stb, ~stb, m, r, spike,
                       pat[1], FALSE, pat[2], FALSE, brk[1], brk[2])
    /\ Low = <<rec.Low>>
    /\ High = <<rec.High>>
    /\ trades = <<>>
    /\ orders = "none"
    /\ decision = "HOLD"
    /\ stage = "init"
    /\ quality = -1
    /\ confirmations = -1
    /\ rr = <<>>
    /\ levels = <<>>
    /\ reason = ""
    /\ params = DefaultParams
    /\ df = <<>>
    /\ features = <<>>
    /\ series = <<>>
    /\ band = <<>>
    /\ direction = <<>>
    /\ rsiOut = <<>>
    /\ multiplier = st_mult

NextBar == next

SpecBar == InitBar /\ [][NextBar]_vars

----
(* One bar of a flat engine at the end of a DataFrame of up to MaxHistory bars *)

\* the column that get_sl_tp reads for the Bias of the last bar (Low for a
\* long candidate, High for a short one) is drawn freely; the other column of
\* the earlier bars is held at its extreme price
InitLevels ==
    /\ pc = "strategy"
    /\ \E n \in 1..MaxHistory :
         \E swing \in [1..n -> 1..MaxPrice] :
           \E b \in BarShapes, a \in 0..MaxATR, bias \in {"BULLISH", "BEARISH"} :
             /\ swing[n] = (IF bias = "BULLISH" THEN b.Low ELSE b.High)
             /\ bar = n
             /\ Low = [k \in 1..n |-> IF bias = "BULLISH" THEN swing[k]
                                      ELSE IF k = n THEN b.Low ELSE 1]
             /\ High = [k \in 1..n |-> IF bias = "BEARISH" THEN swing[k]
                                       ELSE IF k = n THEN b.High ELSE MaxPrice]
             /\ rec = Setup(b, a, bias)
    /\ trades = <<>>
    /\ orders = "none"
    /\ decision = "HOLD"
    /\ stage = "init"
    /\ quality = -1
    /\ confirmations = -1
    /\ rr = <<>>
    /\ levels = <<>>
    /\ reason = ""
    /\ params = DefaultParams
    /\ df = <<>>
    /\ features = <<>>
    /\ series = <<>>
    /\ band = <<>>
    /\ direction = <<>>
    /\ rsiOut = <<>>
    /\ multiplier = st_mult

NextLevels == next

SpecLevels == InitLevels /\ [][NextLevels]_vars

----
(* get_quality_score as a function of the feature record *)

ScoreRSIs == {30, 50, 70}
ScoreMTFScores == {-120, -40, 0, 12, 100}

InitScore ==
    /\ pc = "score"
    /\ bar = 1
    /\ \E vol \in VolStates, bias \in Biases, mtf \in ScoreMTFScores,
          m \in MacdPairs, r \in ScoreRSIs, f \in [1..11 -> BOOLEAN] :
         rec = Feature([Close |-> 1, Low |-> 1, High |-> 1], 1, vol, bias, mtf,
                       f[1], f[2], f[3], f[4], m, r, f[5], f[6], f[7], f[8], f[9],
                       f[10], f[11])
    /\ Low = <<rec.Low>>
    /\ High = <<rec.High>>
    /\ trades = <<>>
    /\ orders = "none"
    /\ decision = "HOLD"
    /\ stage = "init"
    /\ quality = -1
    /\ confirmations = -1
    /\ rr = <<>>
    /\ levels = <<>>
    /\ reason = ""
    /\ params = DefaultParams
    /\ df = <<>>
    /\ features = <<>>
    /\ series = <<>>
    /\ band = <<>>
    /\ direction = <<>>
    /\ rsiOut = <<>>
    /\ multiplier = st_mult

\* quality = self.get_quality_score()
ScoreEval ==
    /\ pc = "score"
    /\ quality' = get_quality_score(rec)
    /\ stage' = "scored"
    /\ pc' = "scored"
    /\ UNCHANGED <<bar, rec, Low, High, trades, orders, decision, confirmations,
                   rr, levels, reason, multiplier, params>>
    /\ UNCHANGED indicatorVars
    /\ UNCHANGED pipelineVars

NextScore == ScoreEval

SpecScore == InitScore /\ [][NextScore]_vars

----
(* Claims about the signal engine *)

\* next() has run on the current bar
Called == pc = "broker" /\ stage # "init"

Vetoed(r) == r.VolState \in {"ULTRA_LOW", "EXTREME"} \/ r.Bias = "NEUTRAL"

\* C1: on a bar where a position is open, next() emits HOLD, places no order
\* and evaluates neither veto, score nor confirmations; no order is ever
\* pending while a position is open and at most one trade is open at a time.
C1_HoldWhileInPosition ==
    /\ (Called /\ trades # <<>>) =>
          /\ decision = "HOLD"
          /\ stage = "position"
          /\ orders = "none"
          /\ quality = -1
          /\ confirmations = -1
    /\ orders # "none" => trades = <<>>
    /\ Len(trades) <= 1

\* a bar that would be an entry if the engine were flat is held
C1_Witness ==
    /\ Called
    /\ trades # <<>>
    /\ stage = "position"
    /\ NextOutcome(rec, Low, High, <<>>).decision # "HOLD"

\* C2: a flat bar whose VolState is ULTRA_LOW or EXTREME, or whose Bias is
\* NEUTRAL, is a HOLD without an order, whatever the score, the confirmations
\* and the reward:risk are.
C2_VetoHolds ==
    (Called /\ trades = <<>> /\ Vetoed(rec)) =>
        (decision = "HOLD" /\ orders = "none")

\* an EXTREME bar that passes the three gates is held
C2_Witness ==
    /\ Called
    /\ trades = <<>>
    /\ rec.VolState = "EXTREME"
    /\ rec.Bias = "BULLISH"
    /\ get_quality_score(rec) >= min_quality
    /\ BullishConfirmations(rec) >= MinConfirmations
    /\ rec.ATR > 0
    /\ decision = "HOLD"

\* the five confirmations of the claim, counted for direction long / short
C3_Count(r, long) ==
    Cardinality({k \in 1..5 :
        \/ k = 1 /\ (IF long THEN r.BullishStack ELSE r.BearishStack)
        \/ k = 2 /\ (IF long THEN r.ST_Bullish ELSE r.ST_Bearish)
        \/ k = 3 /\ (IF long THEN r.MACD > r.MACD_Signal ELSE r.MACD < r.MACD_Signal)
        \/ k = 4 /\ (IF long THEN 40 < r.RSI /\ r.RSI < 70 ELSE 30 < r.RSI /\ r.RSI < 60)
        \/ k = 5 /\ r.VolumeSpike})

\* reward:risk of the candidate >= min_rr
C3_RewardRiskOk(r, lows, highs, long) ==
    LET lv == get_sl_tp(long, r, lows, highs)
        c5 == sl_buffer_den * r.Close
        risk == IF long THEN c5 - lv[1] ELSE lv[1] - c5
        reward == IF long THEN lv[3] - c5 ELSE c5 - lv[3]
    IN  risk > 0 /\ reward * min_rr_den >= min_rr_num * risk

C3_Gates(r, lows, highs, long) ==
    /\ get_quality_score(r) >= min_quality
    /\ C3_Count(r, long) >= 3
    /\ C3_RewardRiskOk(r, lows, highs, long)

\* C3: a flat bar that is not vetoed is an entry in the direction of the Bias
\* exactly when quality >= min_quality, at least 3 of the 5 confirmations of
\* that direction hold and reward:risk >= min_rr; otherwise it is a HOLD.
C3_EntryIffGates ==
    (Called /\ trades = <<>> /\ ~Vetoed(rec)) =>
        /\ decision \in {"HOLD", "ENTER_LONG", "ENTER_SHORT"}
        /\ decision = "ENTER_LONG" <=>
              (rec.Bias = "BULLISH" /\ C3_Gates(rec, Low, High, TRUE))
        /\ decision = "ENTER_SHORT" <=>
              (rec.Bias = "BEARISH" /\ C3_Gates(rec, Low, High, FALSE))

\* an entry with exactly three confirmations
C3_Witness ==
    /\ Called
    /\ trades = <<>>
    /\ decision = "ENTER_LONG"
    /\ confirmations = 3
    /\ rec.RSI = 65

C4_CapSum == 20 + 15 + 10 + 10 + 10 + 10 + 10 + 10 + 5

C4_AllTerms(r) ==
    /\ Abs(r.MTFScore) >= 100
    /\ r.BullishStack \/ r.BearishStack
    /\ r.Bias = "BULLISH"
    /\ r.ST_Bullish
    /\ 30 < r.RSI /\ r.RSI < 70
    /\ r.MACD > r.MACD_Signal
    /\ r.VolumeSpike
    /\ r.BullishEngulfing \/ r.Hammer
    /\ r.BreakAbove
    /\ r.VolState = "NORMAL"

\* C4: get_quality_score is in [0,100] for every feature record; the caps of
\* the terms add up to 100, so the sum of the terms never exceeds 100 and is
\* exactly 100 when every term triggers.
C4_ScoreRange ==
    pc = "scored" =>
        /\ quality \in 0..100
        /\ quality = IntScore(rec)
        /\ C4_CapSum = 100
        /\ C4_AllTerms(rec) => quality = C4_CapSum

C4_Witness ==
    /\ pc = "scored"
    /\ C4_AllTerms(rec)
    /\ rec.MTFScore = -120
    /\ quality = 100

\* C8: when the risk is <= 0 the reward:risk is 0 and the bar is a HOLD
\* without an order.
C8_ZeroRiskHolds ==
    (Called /\ stage \in {"rr", "entry"}
       /\ (IF rec.Bias = "BULLISH"
             THEN sl_buffer_den * rec.Close - levels[1] <= 0
             ELSE levels[1] - sl_buffer_den * rec.Close <= 0)) =>
        /\ rr = <<0, 1>>
        /\ decision = "HOLD"
        /\ orders = "none"

\* stop equal to close on a bar that passed quality and confirmations
C8_Witness ==
    /\ Called
    /\ stage = "rr"
    /\ rec.Bias = "BEARISH"
    /\ levels[1] = sl_buffer_den * rec.Close
    /\ rr = <<0, 1>>
    /\ decision = "HOLD"

\* lowest low / highest high of the last 5 bars
C9_Last5 == {k \in 1..Len(Low) : k > Len(Low) - 5}
C9_LowestLow == CHOOSE x \in {Low[k] : k \in C9_Last5} : \A k \in C9_Last5 : x <= Low[k]
C9_HighestHigh == CHOOSE x \in {High[k] : k \in C9_Last5} : \A k \in C9_Last5 : x >= High[k]

\* C9: an ENTER_LONG has stop < close < tp2 with
\* stop = min(lowest low of the last 5 bars - ATR*sl_buffer, close - ATR*1.2)
\* and tp2 = close + (close - stop)*tp2_rr; an ENTER_SHORT has the mirror
\* ordering and stop = max(highest high + ATR*sl_buffer, close + ATR*1.2).
C9_EntryLevels ==
    LET c5 == 5 * rec.Close IN
    /\ (Called /\ decision = "ENTER_LONG") =>
          /\ levels[1] < c5 /\ c5 < levels[3]
          /\ levels[1] = Min(5 * C9_LowestLow - rec.ATR, c5 - 6 * rec.ATR)
          /\ levels[3] = c5 + (c5 - levels[1]) * 2
    /\ (Called /\ decision = "ENTER_SHORT") =>
          /\ levels[3] < c5 /\ c5 < levels[1]
          /\ levels[1] = Max(5 * C9_HighestHigh + rec.ATR, c5 + 6 * rec.ATR)
          /\ levels[3] = c5 - (levels[1] - c5) * 2

\* a long entry on a bar whose sixth-last low is below the lows of the window
C9_Witness ==
    /\ Called
    /\ decision = "ENTER_LONG"
    /\ Len(Low) > 5
    /\ Low[Len(Low) - 5] < C9_LowestLow

\* C11 as stated: on a bar whose Bias is NEUTRAL the decision is HOLD and the
\* reason of the veto is "No MTF Confluence", whatever the VolState is.
C11_NeutralReason ==
    (Called /\ trades = <<>> /\ rec.Bias = "NEUTRAL") =>
        (decision = "HOLD" /\ reason = "No MTF Confluence")

\* C11 amended: on a bar whose Bias is NEUTRAL (no position is ever opened in
\* a run of such bars) the decision is HOLD at the veto check; the reason
\* check_veto_conditions returns is "No MTF Confluence" when the VolState is
\* LOW, NORMAL or HIGH, and names the volatility state when the VolState is
\* ULTRA_LOW or EXTREME, which is checked first.
C11_NeutralHolds ==
    (Called /\ trades = <<>> /\ rec.Bias = "NEUTRAL") =>
        /\ decision = "HOLD"
        /\ orders = "none"
        /\ stage = "veto"
        /\ rec.VolState \in {"LOW", "NORMAL", "HIGH"} => reason = "No MTF Confluence"
        /\ rec.VolState = "ULTRA_LOW" => reason = "Volatility: ULTRA_LOW"
        /\ rec.VolState = "EXTREME" => reason = "Volatility: EXTREME"

\* a NEUTRAL bar of EXTREME volatility is held for its volatility
C11_Witness ==
    /\ Called
    /\ trades = <<>>
    /\ rec.Bias = "NEUTRAL"
    /\ rec.VolState = "EXTREME"
    /\ decision = "HOLD"
    /\ reason = "Volatility: EXTREME"

----
(* indicators.py: atr and supertrend over a series of bars [h, l, c] *)

\* the multiplier of supertrend: the default and a narrow band
Multipliers == {1, st_mult}

SeriesBars == {b \in [h : 1..MaxSeriesPrice, l : 1..MaxSeriesPrice, c : 1..MaxSeriesPrice] :
                  b.l <= b.c /\ b.c <= b.h}

IsNaN(x) == x = NaN
Le(a, b) == ~IsNaN(a) /\ ~IsNaN(b) /\ a <= b
Lt(a, b) == ~IsNaN(a) /\ ~IsNaN(b) /\ a < b
Gt(a, b) == ~IsNaN(a) /\ ~IsNaN(b) /\ a > b

\* Python's min(a, b) and max(a, b): the first argument unless the second is
\* strictly smaller / larger
PyMin(a, b) == IF Lt(b, a) THEN b ELSE a
PyMax(a, b) == IF Gt(b, a) THEN b ELSE a

\* true range of bar i: the missing previous close of the first bar is skipped
TrueRange(s, i) ==
    IF i = 1
      THEN s[1].h - s[1].l
      ELSE Max(s[i].h - s[i].l, Max(Abs(s[i].h - s[i - 1].c), Abs(s[i].l - s[i - 1].c)))

RECURSIVE SumTR(_, _, _)
SumTR(s, from, to) == IF from > to THEN 0 ELSE TrueRange(s, from) + SumTR(s, from + 1, to)

\* atr(...)[i] * length: the rolling mean is NaN until the window is full
atr(s, i, length) == IF i < length THEN NaN ELSE SumTR(s, i - length + 1, i)

\* upper_band[i] and lower_band[i], * 2*length
upper_band(s, i, m) ==
    IF IsNaN(atr(s, i, st_length)) THEN NaN
    ELSE st_length * (s[i].h + s[i].l) + 2 * m * atr(s, i, st_length)

lower_band(s, i, m) ==
    IF IsNaN(atr(s, i, st_length)) THEN NaN
    ELSE st_length * (s[i].h + s[i].l) - 2 * m * atr(s, i, st_length)

\* close[i] * 2*length
ScaledClose(s, i) == 2 * st_length * s[i].c

\* direction.iloc[0]
SeedDirection == 1

\* one iteration of the loop of supertrend: <<supertrend[i], direction[i]>>
supertrend_at(s, i, prevBand, m) ==
    IF Le(ScaledClose(s, i - 1), prevBand)
      THEN \* In downtrend
           IF Gt(ScaledClose(s, i), upper_band(s, i, m))
             THEN <<lower_band(s, i, m), 1>>
             ELSE <<PyMin(upper_band(s, i, m), prevBand), -1>>
      ELSE \* In uptrend
           IF Lt(ScaledClose(s, i), lower_band(s, i, m))
             THEN <<upper_band(s, i, m), -1>>
             ELSE <<PyMax(lower_band(s, i, m), prevBand), 1>>

InitST ==
    /\ pc = "st"
    /\ multiplier \in Multipliers
    /\ \E b \in SeriesBars :
         /\ series = <<b>>
         /\ band = <<upper_band(<<b>>, 1, multiplier)>>
    /\ direction = <<SeedDirection>>
    /\ rsiOut = <<>>
    /\ bar = 0
    /\ rec = NoRec
    /\ Low = <<>>
    /\ High = <<>>
    /\ trades = <<>>
    /\ orders = "none"
    /\ decision = "HOLD"
    /\ stage = "init"
    /\ quality = -1
    /\ confirmations = -1
    /\ rr = <<>>
    /\ levels = <<>>
    /\ reason = ""
    /\ params = DefaultParams
    /\ df = <<>>
    /\ features = <<>>

\* the loop of supertrend reaches the next bar of the series
supertrend ==
    /\ pc = "st"
    /\ Len(series) < MaxSeriesBars
    /\ \E b \in SeriesBars :
         LET s == Append(series, b)
             i == Len(s)
             r == supertrend_at(s, i, band[i - 1], multiplier)
         IN  /\ series' = s
             /\ band' = Append(band, r[1])
             /\ direction' = Append(direction, r[2])
    /\ UNCHANGED <<pc, rsiOut>>
    /\ UNCHANGED engineVars
    /\ UNCHANGED pipelineVars

NextST == supertrend

SpecST == InitST /\ [][NextST]_vars

----
(* indicators.py: rsi over a series of closes *)

RECURSIVE SumGain(_, _, _)
\* sum of delta.where(delta > 0, 0) over from..to; delta[1] is NaN, hence 0
SumGain(s, from, to) ==
    IF from > to THEN 0
    ELSE (IF from > 1 /\ s[from] - s[from - 1] > 0 THEN s[from] - s[from - 1] ELSE 0)
         + SumGain(s, from + 1, to)

RECURSIVE SumLoss(_, _, _)
\* sum of -delta.where(delta < 0, 0) over from..to
SumLoss(s, from, to) ==
    IF from > to THEN 0
    ELSE (IF from > 1 /\ s[from] - s[from - 1] < 0 THEN s[from - 1] - s[from] ELSE 0)
         + SumLoss(s, from + 1, to)

\* a float that is NaN, +infinity or the ratio n/d
Ratio(n, d) == [kind |-> "ratio", n |-> n, d |-> d]
Infinity == [kind |-> "inf", n |-> 1, d |-> 0]
NotANumber == [kind |-> "nan", n |-> 0, d |-> 0]

\* gain / loss
Divide(gain, loss) ==
    IF loss = 0
      THEN IF gain = 0 THEN NotANumber ELSE Infinity
      ELSE Ratio(gain, loss)

\* 100 - (100 / (1 + rs))
RsiOfRs(rs) ==
    IF rs.kind = "nan" THEN NotANumber
    ELSE IF rs.kind = "inf" THEN Ratio(100, 1)
    ELSE Ratio(100 * (rs.n + rs.d) - 100 * rs.d, rs.n + rs.d)

\* rsi(series, length)[i]
rsi_at(s, i, length) ==
    IF i < length
      THEN NotANumber
      ELSE RsiOfRs(Divide(SumGain(s, i - length + 1, i), SumLoss(s, i - length + 1, i)))

InitRSI ==
    /\ pc = "rsi"
    /\ \E c \in 1..MaxSeriesPrice :
         /\ series = <<c>>
         /\ rsiOut = <<rsi_at(<<c>>, 1, rsi_period)>>
    /\ band = <<>>
    /\ direction = <<>>
    /\ multiplier = st_mult
    /\ bar = 0
    /\ rec = NoRec
    /\ Low = <<>>
    /\ High = <<>>
    /\ trades = <<>>
    /\ orders = "none"
    /\ decision = "HOLD"
    /\ stage = "init"
    /\ quality = -1
    /\ confirmations = -1
    /\ rr = <<>>
    /\ levels = <<>>
    /\ reason = ""
    /\ params = DefaultParams
    /\ df = <<>>
    /\ features = <<>>

\* rsi on the next value of the series
rsi ==
    /\ pc = "rsi"
    /\ Len(series) < MaxSeriesBars
    /\ \E c \in 1..MaxSeriesPrice :
         LET s == Append(series, c) IN
           /\ series' = s
           /\ rsiOut' = Append(rsiOut, rsi_at(s, Len(s), rsi_period))
    /\ UNCHANGED <<pc, band, direction>>
    /\ UNCHANGED engineVars
    /\ UNCHANGED pipelineVars

NextRSI == rsi

SpecRSI == InitRSI /\ [][NextRSI]_vars

----
(* Claims about the indicators *)

DOWNTREND == -1
UPTREND == 1

\* C5: at the first bar the SuperTrend band is upperBand[0] and the direction
\* is DOWNTREND, whatever the bars are.
C5_SeedState ==
    pc = "st" =>
        /\ band[1] = upper_band(series, 1, multiplier)
        /\ direction[1] = DOWNTREND

\* C6: for every bar i after the first, the direction at i differs from the
\* direction at i-1 exactly when the close strictly crosses the candidate band
\* of the prior trend: close[i] > upperBand[i] in a DOWNTREND, close[i] <
\* lowerBand[i] in an UPTREND.
C6_FlipIffCross ==
    pc = "st" =>
        \A i \in 2..Len(series) :
            (direction[i] # direction[i - 1]) <=>
                \/ direction[i - 1] = DOWNTREND
                     /\ Gt(ScaledClose(series, i), upper_band(series, i, multiplier))
                \/ direction[i - 1] = UPTREND
                     /\ Lt(ScaledClose(series, i), lower_band(series, i, multiplier))

\* C7: between two consecutive bars of the same direction the band only
\* tightens: it does not rise in a DOWNTREND and does not fall in an UPTREND.
C7_BandTightens ==
    pc = "st" =>
        \A i \in 2..Len(series) :
            (~IsNaN(band[i]) /\ ~IsNaN(band[i - 1]) /\ direction[i] = direction[i - 1]) =>
                /\ direction[i] = DOWNTREND => band[i] <= band[i - 1]
                /\ direction[i] = UPTREND => band[i] >= band[i - 1]

\* the window of rsi_period deltas that ends at i holds only deltas of the series
C10_FullWindow(i) == i - rsi_period + 1 >= 2

C10_NonNegativeWindow(i) ==
    \A k \in (i - rsi_period + 1)..i : series[k] - series[k - 1] >= 0

\* C10: at every index with a full window of deltas rsi is a number in
\* [0,100], and it is exactly 100 when no delta of the window is negative.
C10_RsiRange ==
    pc = "rsi" =>
        \A i \in 1..Len(series) :
            C10_FullWindow(i) =>
                /\ rsiOut[i].kind = "ratio"
                /\ 0 <= rsiOut[i].n
                /\ rsiOut[i].n <= 100 * rsiOut[i].d
                /\ C10_NonNegativeWindow(i) => rsiOut[i].n = 100 * rsiOut[i].d

----
(* run_backtest.py: fetch_data -> add_all_indicators.  A row of the         *)
(* DataFrame is its index label t and the values that lines 135-222 of      *)
(* add_all_indicators compute on it (the EMAs, the SuperTrend direction,    *)
(* the volatility state, MACD, RSI, volume spike, candle patterns, breaks); *)
(* the stack flags, the SuperTrend flags, MTFScore and Bias are derived     *)
(* from them as the code derives them.                                      *)

Row(t, close, e9, e21, e50, e200, dir, vol, m, r, spike, pat, brk) ==
    [t |-> t, Close |-> close, EMA9 |-> e9, EMA21 |-> e21, EMA50 |-> e50,
     EMA200 |-> e200, ST_Direction |-> dir, VolState |-> vol, MACD |-> m,
     RSI |-> r, VolumeSpike |-> spike, Patterns |-> pat, Breaks |-> brk]

\* the values of direction that supertrend assigns
ST_Directions == {1, -1}

\* df['MTFScore'] = 0, then +25 / -25 / +15 / -15 on the rows of each flag
MTFScoreOf(bull, bear, stb, sts) ==
    0 + (IF bull THEN 25 ELSE 0) - (IF bear THEN 25 ELSE 0)
      + (IF stb THEN 15 ELSE 0) - (IF sts THEN 15 ELSE 0)

\* mutant of BiasOf: the thresholds are 10 and -10
BiasOf_threshold10(mtf) ==
    IF mtf <= -10 THEN "BEARISH"
    ELSE IF mtf >= 10 THEN "BULLISH"
    ELSE "NEUTRAL"

\* df['Bias'] = 'NEUTRAL', then BULLISH where MTFScore >= 30, then BEARISH
\* where MTFScore <= -30
BiasOf(mtf) ==
    IF mtf <= -30 THEN "BEARISH"
    ELSE IF mtf >= 30 THEN "BULLISH"
    ELSE "NEUTRAL"

\* the feature record of row c
FeatureRow(c) ==
    LET bull == c.EMA9 > c.EMA21 /\ c.EMA21 > c.EMA50 /\ c.Close > c.EMA200
        bear == c.EMA9 < c.EMA21 /\ c.EMA21 < c.EMA50 /\ c.Close < c.EMA200
        stb == c.ST_Direction = 1
        sts == c.ST_Direction = -1
        mtf == MTFScoreOf(bull, bear, stb, sts)
    IN  Feature([Close |-> c.Close, Low |-> c.Close, High |-> c.Close], 1,
                c.VolState, BiasOf(mtf), mtf, bull, bear, stb, sts,
                c.MACD, c.RSI, c.VolumeSpike,
                c.Patterns[1], FALSE, c.Patterns[2], FALSE,
                c.Breaks[1], c.Breaks[2])

\* the engine and the indicator loops have not run
Idle ==
    /\ bar = 0
    /\ rec = NoRec
    /\ Low = <<>>
    /\ High = <<>>
    /\ trades = <<>>
    /\ orders = "none"
    /\ decision = "HOLD"
    /\ stage = "init"
    /\ quality = -1
    /\ confirmations = -1
    /\ rr = <<>>
    /\ levels = <<>>
    /\ reason = ""
    /\ params = DefaultParams
    /\ series = <<>>
    /\ band = <<>>
    /\ direction = <<>>
    /\ rsiOut = <<>>
    /\ multiplier = st_mult

\* (EMA9, EMA21, EMA50) of a rising, a falling and a flat market
StackShapes == {<<3, 2, 1>>, <<1, 2, 3>>, <<2, 2, 2>>}

InitPipeline ==
    /\ pc = "fetch"
    /\ df = <<>>
    /\ features = <<>>
    /\ Idle

\* df = fetch_data(symbol, period, interval): the rows come as the data
\* source delivers them; nothing looks at the order of the index
fetch_data ==
    /\ pc = "fetch"
    /\ \E n \in 1..MaxRows :
         \E ts \in [1..n -> 1..MaxTime], es \in [1..n -> StackShapes],
            ds \in [1..n -> ST_Directions] :
           df' = [k \in 1..n |->
                    Row(ts[k], es[k][1], es[k][1], es[k][2], es[k][3], 2, ds[k],
                        "NORMAL", <<0, 0>>, 50, FALSE,
                        <<FALSE, FALSE>>, <<FALSE, FALSE>>)]
    /\ pc' = "indicators"
    /\ UNCHANGED features
    /\ UNCHANGED engineVars
    /\ UNCHANGED indicatorVars

\* df = add_all_indicators(df): every row gets its feature record
add_all_indicators ==
    /\ pc = "indicators"
    /\ features' = [k \in 1..Len(df) |-> FeatureRow(df[k])]
    /\ pc' = "backtest"
    /\ UNCHANGED df
    /\ UNCHANGED engineVars
    /\ UNCHANGED indicatorVars

NextPipeline == fetch_data \/ add_all_indicators

SpecPipeline == InitPipeline /\ [][NextPipeline]_vars

----
(* add_all_indicators on one row, over a wide set of column values *)

InitFeatures ==
    /\ pc = "indicators"
    /\ \E close \in 1..MaxEMA, e9 \in 1..MaxEMA, e21 \in 1..MaxEMA,
          e50 \in 1..MaxEMA, e200 \in 1..MaxEMA, dir \in ST_Directions,
          vol \in VolStates, m \in MacdPairs, r \in ScoreRSIs, spike \in BOOLEAN,
          pat \in Exclusive, brk \in Exclusive :
         df = <<Row(1, close, e9, e21, e50, e200, dir, vol, m, r, spike, pat, brk)>>
    /\ features = <<>>
    /\ Idle

NextFeatures == add_all_indicators

SpecFeatures == InitFeatures /\ [][NextFeatures]_vars

----
(* Claims about the pipeline *)

\* the index of the DataFrame is strictly increasing
Ordered(d) == \A i \in 1..Len(d) : \A j \in 1..Len(d) : i < j => d[i].t < d[j].t

\* C12: a DataFrame whose timestamps are out of order or duplicated is
\* rejected at setup: add_all_indicators produces no feature record from it
\* and the pipeline does not reach the engine.
C12_UnorderedRejected ==
    (df # <<>> /\ ~Ordered(df)) => (features = <<>> /\ pc # "backtest")

\* the values MTFScore can take
C13_MTFScores == {-40, -15, -10, 10, 15, 40}

\* the stack and the SuperTrend confirmation of the direction of the Bias
C13_TwoConfirmations(f) ==
    \/ f.Bias = "BULLISH" /\ f.BullishStack /\ f.ST_Bullish /\ BullishConfirmations(f) >= 2
    \/ f.Bias = "BEARISH" /\ f.BearishStack /\ f.ST_Bearish /\ BearishConfirmations(f) >= 2

\* C13: in every feature record of add_all_indicators Bias is BULLISH exactly
\* when BullishStack holds and ST_Direction is +1, BEARISH exactly when
\* BearishStack holds and ST_Direction is -1, and MTFScore is one of -40, -15,
\* -10, 10, 15, 40; so a record that passes the veto has the stack and the
\* SuperTrend confirmation and a quality score of at least 33, and no record
\* has a quality score above 88.
C13_BiasFromStackAndST ==
    pc = "backtest" =>
        \A k \in 1..Len(features) :
            LET f == features[k]
                dir == df[k].ST_Direction
            IN  /\ f.Bias = "BULLISH" <=> (f.BullishStack /\ dir = 1)
                /\ f.Bias = "BEARISH" <=> (f.BearishStack /\ dir = -1)
                /\ f.MTFScore \in C13_MTFScores
                /\ get_quality_score(f) <= 88
                /\ ~check_veto_conditions(f)[1] =>
                      (C13_TwoConfirmations(f) /\ get_quality_score(f) >= 33)

\* a record that passes the veto with nothing but the stack and the SuperTrend
C13_Witness ==
    /\ pc = "backtest"
    /\ \E k \in 1..Len(features) :
         /\ ~check_veto_conditions(features[k])[1]
         /\ features[k].Bias = "BEARISH"
         /\ features[k].MTFScore = -40
         /\ get_quality_score(features[k]) = 33

----
(* strategy.py: the reward:risk gate of next() in floating-point arithmetic. *)
(* A number is an integer count of units of 2^-FracBits with at most        *)
(* FloatBits significant bits; every operation rounds its exact result to   *)
(* the nearest such number, ties to the even significand, as IEEE 754 does  *)
(* with 53 bits.                                                            *)

RECURSIVE Pow2(_)
Pow2(k) == IF k = 0 THEN 1 ELSE 2 * Pow2(k - 1)

\* the number 1.0
Unit == Pow2(FracBits)

\* n / d (n >= 0, d > 0) rounded to the nearest integer, ties to even
RoundHalfEven(n, d) ==
    LET q == n \div d
        r == n % d
    IN  IF 2 * r > d \/ (2 * r = d /\ q % 2 = 1) THEN q + 1 ELSE q

\* the binary exponent at which n / d has FloatBits significant bits
RECURSIVE Exponent(_, _)
Exponent(n, d) == IF n < Pow2(FloatBits) * d THEN 0 ELSE 1 + Exponent(n, 2 * d)

\* the floating-point number nearest to n / d units
Fl(n, d) ==
    LET m == Abs(n)
        e == Exponent(m, d)
        x == RoundHalfEven(m, d * Pow2(e)) * Pow2(e)
    IN  IF n < 0 THEN -x ELSE x

FAdd(a, b) == Fl(a + b, 1)
FSub(a, b) == Fl(a - b, 1)
FMul(a, b) == Fl(a * b, Unit)
FDiv(a, b) == Fl(a * Unit, b)

\* the floating-point number of a decimal literal x = <<n, d>>
Literal(x) == Fl(x[1] * Unit, x[2])

\* the floating-point numbers 0..MaxFloat units
Floats == {x \in 0..MaxFloat : Fl(x, 1) = x}

\* the values optimize_strategy sweeps
MinRRSweep == {<<1, 1>>, <<3, 2>>, <<2, 1>>}
Tp2RRSweep == {<<3, 2>>, <<2, 1>>, <<5, 2>>, <<3, 1>>}

\* get_sl_tp in floating point: <<sl, tp1, tp2, tp3>> in units
get_sl_tp_float(is_long, r, lows, highs, p) ==
    LET close == r.Close
        sl_buffer == Literal(<<1, sl_buffer_den>>)
        atr_stop == Literal(<<atr_stop_num, sl_buffer_den>>)
    IN  IF is_long
          THEN LET recent_low == SeqMin(LastN(lows, SwingWindow))
                   sl == Min(FSub(recent_low, FMul(r.ATR, sl_buffer)),
                             FSub(close, FMul(r.ATR, atr_stop)))
                   risk == FSub(close, sl)
               IN  <<sl, FAdd(close, FMul(risk, Literal(<<tp1_rr, 1>>))),
                     FAdd(close, FMul(risk, Literal(p.tp2_rr))),
                     FAdd(close, FMul(risk, Literal(<<tp3_rr, 1>>)))>>
          ELSE LET recent_high == SeqMax(LastN(highs, SwingWindow))
                   sl == Max(FAdd(recent_high, FMul(r.ATR, sl_buffer)),
                             FAdd(close, FMul(r.ATR, atr_stop)))
                   risk == FSub(sl, close)
               IN  <<sl, FSub(close, FMul(risk, Literal(<<tp1_rr, 1>>))),
                     FSub(close, FMul(risk, Literal(p.tp2_rr))),
                     FSub(close, FMul(risk, Literal(<<tp3_rr, 1>>)))>>

\* close - sl of a long candidate, sl - close of a short one, as next() computes it
RiskOf(is_long, r, lv) == IF is_long THEN FSub(r.Close, lv[1]) ELSE FSub(lv[1], r.Close)

\* rr = (tp2 - close) / (close - sl) if (close - sl) > 0 else 0, and its mirror
RewardRiskFloat(is_long, r, lv) ==
    LET risk == RiskOf(is_long, r, lv)
        reward == IF is_long THEN FSub(lv[3], r.Close) ELSE FSub(r.Close, lv[3])
    IN  IF risk > 0 THEN FDiv(reward, risk) ELSE 0

InitGate ==
    /\ pc = "gate"
    /\ bar = 1
    /\ \E l \in Floats, c \in Floats, h \in Floats, a \in Floats,
          bias \in {"BULLISH", "BEARISH"}, mr \in MinRRSweep, t2 \in Tp2RRSweep :
         /\ 0 < l /\ l <= c /\ c <= h
         /\ rec = Setup([Close |-> c, Low |-> l, High |-> h], a, bias)
         /\ params = [min_rr |-> mr, tp2_rr |-> t2]
    /\ Low = <<rec.Low>>
    /\ High = <<rec.High>>
    /\ trades = <<>>
    /\ orders = "none"
    /\ decision = "HOLD"
    /\ stage = "init"
    /\ quality = -1
    /\ confirmations = -1
    /\ rr = <<>>
    /\ levels = <<>>
    /\ reason = ""
    /\ df = <<>>
    /\ features = <<>>
    /\ series = <<>>
    /\ band = <<>>
    /\ direction = <<>>
    /\ rsiOut = <<>>
    /\ multiplier = st_mult

\* next() from get_sl_tp to the order, on a candidate that passed the
\* quality and confirmation gates
reward_risk_gate ==
    /\ pc = "gate"
    /\ LET is_long == rec.Bias = "BULLISH"
           lv == get_sl_tp_float(is_long, rec, Low, High, params)
           x == RewardRiskFloat(is_long, rec, lv)
           pass == x >= Literal(params.min_rr)
       IN  /\ levels' = lv
           /\ rr' = <<x, Unit>>
           /\ decision' = IF ~pass THEN "HOLD"
                          ELSE IF is_long THEN "ENTER_LONG" ELSE "ENTER_SHORT"
           /\ stage' = IF pass THEN "entry" ELSE "rr"
           /\ orders' = IF ~pass THEN "none" ELSE IF is_long THEN "buy" ELSE "sell"
    /\ pc' = "gated"
    /\ UNCHANGED <<bar, rec, Low, High, trades, quality, confirmations, reason,
                   params, multiplier>>
    /\ UNCHANGED indicatorVars
    /\ UNCHANGED pipelineVars

NextGate == reward_risk_gate

SpecGate == InitGate /\ [][NextGate]_vars

----
(* Claims about the reward:risk gate *)

\* tp2_rr >= min_rr
C14_Tp2CoversMinRR == params.tp2_rr[1] * params.min_rr[2] >= params.min_rr[1] * params.tp2_rr[2]

\* C14: whenever the computed risk is > 0 the reward:risk ratio that next()
\* evaluates equals tp2_rr exactly, for long and short candidates, so the
\* gate rr >= min_rr passes exactly when tp2_rr >= min_rr, whatever the
\* price, the ATR and the swing extreme are.
C14_RREqualsTp2 ==
    (pc = "gated" /\ RiskOf(rec.Bias = "BULLISH", rec, levels) > 0) =>
        /\ rr[1] = Literal(params.tp2_rr)
        /\ decision # "HOLD" <=> C14_Tp2CoversMinRR

====
